---- MODULE Spec2Model ----
(***************************************************************************)
(* Model of the Talkscriber ts-client repository.                          *)
(*                                                                         *)
(* The streaming client (src/python/ts_live/client.py) runs two threads:   *)
(* the WebSocket listener thread started by Client.__init__ (it runs       *)
(* on_open, on_message, on_error, on_close) and the foreground thread      *)
(* (TranscriptionClient.__call__, Client.record, Client._cleanup).         *)
(* The offline entry point (src/talkscriber/stt/cli.py) submits one batch  *)
(* job.  Which entry point runs is chosen in Init.                         *)
(*                                                                         *)
(* Client._handle_transcription is checked on its own under TxSpec.        *)
(***************************************************************************)
EXTENDS Naturals, Integers, Sequences, FiniteSets, TLC

(* ---------------------------- bounds ---------------------------------- *)

\* Number of inbound messages the server sends on the connection.
MaxMsgs == 3

\* Number of audio chunks the microphone delivers.
MaxChunks == 3

\* recorded_frames is counted in chunks; the buffer is written out to a
\* chunk file once it holds more than FlushChunks chunks (a scaled stand-in
\* for "len(recorded_frames) > 60 * rate" bytes).
FlushChunks == 1

\* Longest segment list of one inbound message that is explored.
MaxSegs == 4

\* Largest timeout (in clock ticks) passed to wait_for_job_completion.
MaxTimeout == 3

\* Largest poll interval (in clock ticks); the smallest is one tick.
MaxPollInterval == 2

\* Longest time (in clock ticks) one status fetch takes; the shortest is none.
MaxFetchTime == 1

\* Longest sample list explored, besides the list 10, 20, 30, 40.
MaxData == 3

\* Largest num_runs of run_benchmark explored.
MaxRuns == 3

\* The clock values explored: no run of the poll loop gets further than its
\* timeout plus one fetch and one sleep.
MaxClock == MaxTimeout + MaxFetchTime + MaxPollInterval + 1

(* ---------------------------- values ---------------------------------- *)

\* Python's None (also stands for an absent JSON field).
None == "None"

\* str(uuid.uuid4()) drawn in Client.__init__.
InitialUid == "uid0"

\* Session ids the server may issue.
ServerIds == {"s1", "s2"}

\* ServerMessage.status: "WAIT" is the only value on_message looks at;
\* "ERROR" stands for every other status (an authentication failure among
\* them), all of which on_message ignores in the same way.
Statuses == {None, "WAIT", "ERROR"}

\* ServerMessage.message.
MessageTags == {None, "DISCONNECT", "SERVER_READY"}

\* The well-formed inbound messages (ServerMessage, the fields that drive
\* the client's state).  An empty session_id is falsy in Python and is
\* treated like an absent one; None stands for both.
\* Latency samples (milliseconds; whole numbers, exact as floats).
SampleValues == {1, 2, 3}

\* The sample lists explored: every order of arrival of up to MaxData
\* samples, and the list 10, 20, 30, 40.
DataSets ==
  UNION {[1..k -> SampleValues] : k \in 0..MaxData} \cup {<<10, 20, 30, 40>>}

\* Percentile arguments: those of run_benchmark (50, 95, 99), the two ends
\* and 1.
Percentiles == {0, 1, 50, 95, 99, 100}

\* Segment texts (TranscriptionSegment.text).
Texts == {"a", "b", "c"}

ServerMessage == [session_id : {None} \cup ServerIds,
                  status     : Statuses,
                  message    : MessageTags]

\* ServerConfig: the options given to TranscriptionClient / the CLI flags.
\* file is TRUE when an audio file argument was given.
ServerConfig == [translate    : BOOLEAN,
                 multilingual : {FALSE},
                 language     : {"en"},
                 api_key      : {"key"},
                 file         : BOOLEAN]

VARIABLES
  entry,                      \* "live": ts_live client; "offline": batch CLI
  config,                     \* ServerConfig / parsed CLI arguments
  session_id,                 \* Client.session_id
  is_recording,               \* Client.is_recording
  is_waiting,                 \* Client.is_waiting
  last_server_response_time,  \* logical time: number of messages handled
  recorded_frames,            \* Client.recorded_frames, in chunks
  n_audio_file,               \* record()'s local n_audio_file
  chunk_files,                \* indices i of chunks/<i>.wav written
  writers,                    \* chunk-writer threads started and not yet run
  audio_open,                 \* audio_stream / pyaudio_instance still held
  ws_state,                   \* transport: "connecting", "failed", "open", "closed"
  outbound,                   \* frames handed to the open transport, in order
  send_log,                   \* per outbound frame: session_id at send time
  lpc,                        \* listener thread position
  fgpc,                       \* foreground thread position
  exc,                        \* exception that left the foreground call
  ready_seen,                 \* on_message has handled a SERVER_READY
  disconnect_seen,            \* a DISCONNECT was handled: "no", or "before_record"
                              \* / "in_record" (record() had been entered)
  auth_failed,                \* on_message has handled a failure status
  interrupted,                \* KeyboardInterrupt arrived inside record()
  last_msg_sid,               \* session_id field of the last handled message
  dropped,                    \* number of inbound payloads that failed to parse
  bpc,                        \* batch CLI position
  posted,                     \* batch payloads POSTed
  exit_code,                  \* sys.exit status of the batch CLI, -1: none
  segments,                   \* texts of the segments of the message displayed
  transcript,                 \* _handle_transcription's transcript list
  wrapped_text,               \* _handle_transcription's text, as displayed
  ppc,                        \* position in wait_for_job_completion
  now,                        \* time.time(), in clock ticks
  start_time,                 \* wait_for_job_completion's start_time
  timeout,                    \* its timeout argument
  poll_interval,              \* its poll_interval argument
  last_status,                \* its last_status
  job_status,                 \* outcome of the last get_batch_job_status
  poll_result,                \* the dict wait_for_job_completion returned
  poll_exc,                   \* the exception wait_for_job_completion raised
  fetched_ok,                 \* some status fetch has returned a response
  data,                       \* the sample list (ttft_measurements)
  calls,                      \* calls of calculate_percentile: 0, 1, 2 or more
  percentile,                 \* argument of the last call, -1: none
  result,                     \* what the last call returned
  earlier_percentile,         \* argument of the call before the last
  earlier_result,             \* what the call before the last returned
  bench_returned,             \* what run_benchmark returned: "none" (not yet),
                              \* "False", "True"
  stats,                      \* the statistics run_benchmark computed
  num_runs,                   \* run_benchmark's num_runs
  started,                    \* trials begun (iterations of the for loop)
  finished,                   \* trials that ran to their end
  successful_runs,            \* run_benchmark's successful_runs
  failed_runs,                \* run_benchmark's failed_runs
  bench_pc,                   \* position in run_benchmark
  bench_interrupted,          \* a KeyboardInterrupt cut a trial short
  last_outcome,               \* how the last trial begun went
  report,                     \* the counts run_benchmark printed
  cli_mode,                   \* the wrapper run: "stt_live", "stt_offline", "tts"
  cli_pc,                     \* position in the wrapper's main
  cli_exit,                   \* exit status of the process, -1: still running
  error_printed,              \* an "[ERROR]" line was printed
  cli_cause,                  \* what ended the run, and at which call
  tc_class,                   \* the TranscriptionClient class constructed
  tc_given,                   \* the keyword arguments passed to it
  tc_pc,                      \* "new", "constructed" or "raised"
  tc_raised,                  \* the exception the constructor raised
  tc_attrs                    \* the attributes of the constructed object

streamVars == <<session_id, is_recording, is_waiting, last_server_response_time,
                recorded_frames, n_audio_file, chunk_files, writers,
                audio_open, ws_state, outbound, send_log, lpc, fgpc,
                exc, ready_seen, disconnect_seen, auth_failed, interrupted,
                last_msg_sid, dropped>>

batchVars == <<bpc, posted, exit_code>>

txVars == <<segments, transcript, wrapped_text>>

pollVars == <<ppc, now, start_time, timeout, poll_interval, last_status,
              job_status, poll_result, poll_exc, fetched_ok>>

\* The variables of the parts checked under their own specifications.
pctVars == <<data, calls, percentile, result, earlier_percentile,
             earlier_result, bench_returned, stats>>

benchVars == <<num_runs, started, finished, successful_runs, failed_runs,
               bench_pc, bench_interrupted, last_outcome, report>>

cliVars == <<cli_mode, cli_pc, cli_exit, error_printed, cli_cause>>

tcVars == <<tc_class, tc_given, tc_pc, tc_raised, tc_attrs>>

auxVars == <<txVars, pollVars, pctVars, benchVars, cliVars, tcVars>>

\* What the display of segments, the poll loop and the latency sampler
\* leave alone.
notTx == <<entry, config, streamVars, batchVars, pollVars, pctVars, benchVars,
          cliVars, tcVars>>
notPoll == <<entry, config, streamVars, batchVars, txVars, pctVars, benchVars,
            cliVars, tcVars>>
notPct == <<entry, config, streamVars, batchVars, txVars, pollVars, cliVars,
           tcVars>>
notCli == <<entry, config, streamVars, batchVars, txVars, pollVars, pctVars,
           benchVars, tcVars>>
notTc == <<entry, config, streamVars, batchVars, txVars, pollVars, pctVars,
          benchVars, cliVars>>

vars == <<entry, config, streamVars, batchVars, auxVars>>

(* ------------------------- pure helpers ------------------------------- *)

\* on_open: "task": "translate" if self.config.translate else "transcribe"
HandshakeTask(cfg) == IF cfg.translate THEN "translate" ELSE "transcribe"

\* Variant of AuthMessage: the uid is a uuid drawn in on_open instead of the
\* id stored at construction.
AuthMessage_FreshUid(sid, cfg) ==
  [kind         |-> "handshake",
   uid          |-> "uid1",
   multilingual |-> cfg.multilingual,
   language     |-> cfg.language,
   task         |-> HandshakeTask(cfg),
   auth         |-> cfg.api_key]

\* on_open: the auth_message dict.
AuthMessage(sid, cfg) ==
  [kind         |-> "handshake",
   uid          |-> sid,
   multilingual |-> cfg.multilingual,
   language     |-> cfg.language,
   task         |-> HandshakeTask(cfg),
   auth         |-> cfg.api_key]

\* A binary audio frame (OPCODE_BINARY); it carries audio samples only.
AudioPacket == [kind |-> "chunk"]

\* Variant of NewSessionId: the truthiness test is dropped, so a message
\* without a session_id overwrites the stored id.
NewSessionId_NoTruthTest(m, sid) ==
  IF m.session_id # sid THEN m.session_id ELSE sid

\* on_message, session id update: a truthy id different from the stored one
\* replaces it.
NewSessionId(m, sid) ==
  IF m.session_id # None /\ m.session_id # sid THEN m.session_id ELSE sid

\* on_message, "WAIT" status.
NewIsWaiting(m, w) == IF m.status = "WAIT" THEN TRUE ELSE w

\* Variant of NewIsRecording: every message other than DISCONNECT opens the
\* gate.
NewIsRecording_AnyMessage(m, r) ==
  IF m.message = "DISCONNECT" THEN FALSE ELSE TRUE

\* on_message, DISCONNECT then SERVER_READY (two separate if statements).
NewIsRecording(m, r) ==
  LET afterDisconnect == IF m.message = "DISCONNECT" THEN FALSE ELSE r
  IN  IF m.message = "SERVER_READY" THEN TRUE ELSE afterDisconnect

\* websocket send: the frame goes out when the transport is open; otherwise
\* the library raises and nothing goes out.
Transmit(out, frame) == IF ws_state = "open" THEN Append(out, frame) ELSE out

\* What the client stored as its session id when a frame went out.
LogEntry(sid) == [sid |-> sid, replaced |-> sid # InitialUid]

TransmitLog(log, sid) ==
  IF ws_state = "open" THEN Append(log, LogEntry(sid)) ELSE log

\* Number of chunks captured so far by record().
Captured == n_audio_file * (FlushChunks + 1) + recorded_frames

(* ---------------------- binary64 arithmetic ---------------------------- *)

\* calculate_percentile computes with Python floats (IEEE 754 binary64).  A
\* float x is held here as the integer x * 2^FracBits, written in NLimbs
\* limbs of LimbBits bits, least significant first (TLC's integers have 32
\* bits).  Every float met for samples that are small whole numbers and
\* percentiles that are whole numbers is a multiple of 2^-59, so the
\* representation is exact, with two further bits for the rounding of the
\* division.
LimbBits == 24
LimbBase == 2^LimbBits
NLimbs == 4
FracBits == 61

\* Number of significant bits of a binary64.
Significand == 53

FxZero == [i \in 1..NLimbs |-> 0]

\* Carry (or borrow) propagation from limb i upwards.
RECURSIVE Propagate(_, _, _)
Propagate(x, i, c) ==
  IF i > NLimbs THEN x
  ELSE LET v == x[i] + c
       IN  Propagate([x EXCEPT ![i] = v % LimbBase], i + 1, v \div LimbBase)

Norm(x) == Propagate(x, 1, 0)

\* Exact sum, exact difference (x >= y) and exact product with a whole
\* number k < 2^7.
FxAdd(x, y) == Norm([i \in 1..NLimbs |-> x[i] + y[i]])
FxSub(x, y) == Norm([i \in 1..NLimbs |-> x[i] - y[i]])
FxMulInt(x, k) == Norm([i \in 1..NLimbs |-> x[i] * k])

\* The float of the whole number n (0 <= n < 2^18): int to float conversion.
FxOfInt(n) ==
  Norm([i \in 1..NLimbs |->
     IF i = (FracBits \div LimbBits) + 1 THEN n * 2^(FracBits % LimbBits) ELSE 0])

\* int(x) for x >= 0: the whole part.
FxFloor(x) ==
  LET i == (FracBits \div LimbBits) + 1
  IN  (x[i] \div 2^(FracBits % LimbBits))
        + x[i + 1] * 2^(LimbBits - (FracBits % LimbBits))

\* x < y and x <= y.
FxLess(x, y) ==
  LET D == {i \in 1..NLimbs : x[i] # y[i]}
  IN  D # {} /\ LET m == CHOOSE k \in D : \A l \in D : l <= k
                IN  x[m] < y[m]

FxLeq(x, y) == x = y \/ FxLess(x, y)

\* Number of bits of x (0 for zero).
BitLen(x) ==
  LET D == {i \in 1..NLimbs : x[i] # 0}
  IN  IF D = {} THEN 0
      ELSE LET m == CHOOSE k \in D : \A l \in D : l <= k
               b == CHOOSE k \in 1..LimbBits :
                      2^(k - 1) <= x[m] /\ x[m] < 2^k
           IN  LimbBits * (m - 1) + b

\* Round to nearest, ties to even, to Significand bits.  sticky says that the
\* exact value is above x by less than one unit of the last limb.  The bits
\* rounded away all lie in the lowest limb.
Round53(x, sticky) ==
  LET s == BitLen(x) - Significand
  IN  IF s <= 0 THEN x
      ELSE LET g == 2^s
               rem == x[1] % g
               half == g \div 2
               odd == (x[1] \div g) % 2 = 1
               down == [x EXCEPT ![1] = x[1] - rem]
               up == rem > half \/ (rem = half /\ (sticky \/ odd))
           IN  IF up THEN Norm([down EXCEPT ![1] = down[1] + g]) ELSE down

\* Long division of x by the whole number d <= 100, from limb i downwards,
\* with remainder r carried in: quotient q and final remainder.
RECURSIVE LongDiv(_, _, _, _, _)
LongDiv(x, i, r, d, q) ==
  IF i = 0 THEN [q |-> q, r |-> r]
  ELSE LET v == r * LimbBase + x[i]
       IN  LongDiv(x, i - 1, v % d, d, [q EXCEPT ![i] = v \div d])

\* Float operations: the exact result, rounded.
FAdd(x, y) == Round53(FxAdd(x, y), FALSE)
FSub(x, y) == Round53(FxSub(x, y), FALSE)
FMulInt(x, k) == Round53(FxMulInt(x, k), FALSE)
FDivInt(k, d) ==
  LET qr == LongDiv(FxOfInt(k), NLimbs, 0, d, FxZero)
  IN  Round53(qr.q, qr.r # 0)

(* ----------------------- calculate_percentile -------------------------- *)

\* sorted(data): insertion of v into the sorted list t, and the sort.
RECURSIVE Insert(_, _)
Insert(t, v) ==
  IF t = <<>> THEN <<v>>
  ELSE IF v < Head(t) THEN <<v>> \o t
  ELSE <<Head(t)>> \o Insert(Tail(t), v)

RECURSIVE Sorted(_)
Sorted(d) ==
  IF d = <<>> THEN <<>> ELSE Insert(Sorted(Tail(d)), Head(d))

\* Variant of SortedData: the samples are taken in their order of arrival.
SortedData_Unsorted(d) == d

\* "sorted_data = sorted(data)".
SortedData(d) == Sorted(d)

\* Variant of Rank: the division is an integer division, so the index has
\* no fractional part.
Rank_Floored(n, pct) == FxOfInt(((n - 1) * pct) \div 100)

\* "index = (len(sorted_data) - 1) * percentile / 100.0".
Rank(n, pct) == FDivInt((n - 1) * pct, 100)

\* Variant of EmptyValue: an empty list gives 1.0.
EmptyValue_NonZero == FxOfInt(1)

\* "if not data: return 0.0".
EmptyValue == FxZero

\* calculate_percentile(data, percentile) for samples that are whole numbers
\* and a whole percentile in 0..100 (Python lists are indexed from 0,
\* sequences from 1).
CalcPercentile(d, pct) ==
  IF d = <<>> THEN EmptyValue
  ELSE LET sorted_data == SortedData(d)
           index == Rank(Len(sorted_data), pct)
           lower == FxFloor(index)
           upper == lower + 1
           weight == FSub(index, FxOfInt(lower))
       IN  IF upper >= Len(sorted_data) THEN FxOfInt(sorted_data[lower + 1])
           ELSE FAdd(FMulInt(FSub(FxOfInt(1), weight), sorted_data[lower + 1]),
                     FMulInt(weight, sorted_data[upper + 1]))

(* ------------------- run_benchmark: statistics ------------------------- *)

RECURSIVE SumOf(_)
SumOf(d) == IF d = <<>> THEN 0 ELSE Head(d) + SumOf(Tail(d))

\* min(ttft_measurements), max(ttft_measurements).
MinOf(d) == CHOOSE v \in {d[i] : i \in DOMAIN d} : \A i \in DOMAIN d : v <= d[i]
MaxOf(d) == CHOOSE v \in {d[i] : i \in DOMAIN d} : \A i \in DOMAIN d : d[i] <= v

\* statistics.mean: the exact sum over the count, rounded once.
MeanOf(d) == FDivInt(SumOf(d), Len(d))

\* statistics.median: the middle sample, or the mean of the two middle ones.
MedianOf(d) ==
  LET sd == Sorted(d)
      n == Len(sd)
  IN  IF n % 2 = 1 THEN FxOfInt(sd[(n + 1) \div 2])
      ELSE FDivInt(sd[n \div 2] + sd[(n \div 2) + 1], 2)

\* No statistic has been computed.
NoStats == [computed |-> FALSE]

\* run_benchmark, lines 119-126, for a non-empty list.  Of std_dev only the
\* way it is obtained is kept: the literal 0, or statistics.stdev.
Statistics(d) ==
  [computed |-> TRUE,
   p50      |-> CalcPercentile(d, 50),
   p95      |-> CalcPercentile(d, 95),
   p99      |-> CalcPercentile(d, 99),
   mean     |-> MeanOf(d),
   median   |-> MedianOf(d),
   std_dev  |-> IF Len(d) > 1 THEN "statistics.stdev" ELSE "0",
   min_ttft |-> FxOfInt(MinOf(d)),
   max_ttft |-> FxOfInt(MaxOf(d))]

(* ----------------------------- Init ----------------------------------- *)

\* The fields of the streaming client after Client.__init__ returned, and
\* the batch CLI after argument parsing.
StreamIdle ==
  /\ session_id = InitialUid
  /\ is_recording = FALSE
  /\ is_waiting = FALSE
  /\ last_server_response_time = 0
  /\ recorded_frames = 0
  /\ n_audio_file = 0
  /\ chunk_files = {}
  /\ writers = {}
  /\ audio_open = TRUE
  /\ ws_state = "connecting"
  /\ outbound = <<>>
  /\ send_log = <<>>
  /\ lpc = "connecting"
  /\ fgpc = "wait"
  /\ exc = None
  /\ ready_seen = FALSE
  /\ disconnect_seen = "no"
  /\ auth_failed = FALSE
  /\ interrupted = FALSE
  /\ last_msg_sid = None
  /\ bpc = "start"
  /\ posted = <<>>
  /\ exit_code = -1
  /\ dropped = 0

\* No message with segments has been displayed.
TxIdle ==
  /\ segments = <<>>
  /\ transcript = <<>>
  /\ wrapped_text = ""

\* A response of the status endpoint as far as the poll loop reads it; ok is
\* false when get_batch_job_status raised instead of returning.
NoResponse == [ok |-> FALSE, status |-> None]

\* No exception.
NoExc == [type |-> None, msg |-> None, status |-> None]

\* wait_for_job_completion has not been called.
PollIdle ==
  /\ ppc = "idle"
  /\ now = 0
  /\ start_time = 0
  /\ timeout = 0
  /\ poll_interval = 0
  /\ last_status = None
  /\ job_status = NoResponse
  /\ poll_result = NoResponse
  /\ poll_exc = NoExc
  /\ fetched_ok = FALSE

\* An object without attributes (none has been constructed).
NoAttrs == [constructed |-> FALSE]

\* No TranscriptionClient(...) call has been made.
TcIdle ==
  /\ tc_pc = "new"
  /\ tc_raised = None
  /\ tc_attrs = NoAttrs

\* No CLI wrapper has been started.
CliIdle ==
  /\ cli_pc = "start"
  /\ cli_exit = -1
  /\ error_printed = FALSE
  /\ cli_cause = [at |-> None, what |-> None]

\* Nothing has been printed.
NoReport == [printed |-> FALSE]

\* run_benchmark has not been called.
BenchIdle ==
  /\ num_runs = 0
  /\ started = 0
  /\ finished = 0
  /\ successful_runs = 0
  /\ failed_runs = 0
  /\ bench_pc = "idle"
  /\ bench_interrupted = FALSE
  /\ last_outcome = None
  /\ report = NoReport

\* The latency sampler has computed nothing.
PctIdle ==
  /\ calls = 0
  /\ percentile = -1
  /\ result = FxZero
  /\ earlier_percentile = -1
  /\ earlier_result = FxZero
  /\ bench_returned = "none"
  /\ stats = NoStats

\* State after TranscriptionClient(...) / Client.__init__ returned (live), or
\* after argument parsing (offline).
Init ==
  /\ entry \in {"live", "offline"}
  /\ config \in ServerConfig
  /\ StreamIdle
  /\ TxIdle
  /\ PollIdle
  /\ data = <<>>
  /\ PctIdle
  /\ BenchIdle
  /\ cli_mode = None
  /\ CliIdle
  /\ tc_class = None
  /\ tc_given = {}
  /\ TcIdle

(* ----------------------- listener thread ------------------------------ *)

\* The transport could not be established: run_forever reports the error
\* through on_error (which only prints).
connect_failed ==
  /\ entry = "live"
  /\ lpc = "connecting"
  /\ lpc' = "errored"
  /\ ws_state' = "failed"
  /\ UNCHANGED <<entry, config, batchVars, auxVars, writers, dropped, session_id, is_recording, is_waiting,
                 last_server_response_time, recorded_frames, n_audio_file,
                 chunk_files, audio_open, outbound,
                 send_log, fgpc, exc, ready_seen, disconnect_seen, auth_failed,
                 interrupted, last_msg_sid>>

\* Variant of on_open: the connection opens and no handshake is sent.
on_open_NoHandshake ==
  /\ entry = "live"
  /\ lpc = "connecting"
  /\ lpc' = "open"
  /\ ws_state' = "open"
  /\ UNCHANGED <<entry, config, batchVars, auxVars, writers, dropped, session_id, is_recording, is_waiting,
                 last_server_response_time, recorded_frames, n_audio_file,
                 chunk_files, audio_open, outbound, send_log, fgpc, exc,
                 ready_seen, disconnect_seen, auth_failed, interrupted,
                 last_msg_sid>>

\* Client.on_open: build the handshake and send it.
on_open ==
  /\ entry = "live"
  /\ lpc = "connecting"
  /\ lpc' = "open"
  /\ ws_state' = "open"
  /\ outbound' = Append(outbound, AuthMessage(session_id, config))
  /\ send_log' = Append(send_log, LogEntry(session_id))
  /\ UNCHANGED <<entry, config, batchVars, auxVars, writers, dropped, session_id, is_recording, is_waiting,
                 last_server_response_time, recorded_frames, n_audio_file,
                 chunk_files, audio_open, fgpc, exc,
                 ready_seen, disconnect_seen, auth_failed, interrupted,
                 last_msg_sid>>

\* Client.on_message for a well-formed message m.  The handler's writes are
\* taken in one step: what the foreground can observe between them (is_waiting
\* set, is_recording not yet) is also the state after a message carrying the
\* status alone.
on_message(m) ==
  /\ entry = "live"
  /\ lpc = "open"
  /\ last_server_response_time < MaxMsgs
  /\ last_server_response_time' = last_server_response_time + 1
  /\ session_id' = NewSessionId(m, session_id)
  /\ is_waiting' = NewIsWaiting(m, is_waiting)
  /\ is_recording' = NewIsRecording(m, is_recording)
  /\ ready_seen' = (ready_seen \/ m.message = "SERVER_READY")
  /\ disconnect_seen' = IF m.message # "DISCONNECT" THEN disconnect_seen
                        ELSE IF fgpc \in {"rec_test", "rec_body"} THEN "in_record"
                        ELSE IF disconnect_seen = "no" THEN "before_record"
                        ELSE disconnect_seen
  /\ auth_failed' = (auth_failed \/ m.status = "ERROR")
  /\ last_msg_sid' = m.session_id
  /\ UNCHANGED <<entry, config, batchVars, auxVars, writers, dropped, recorded_frames, n_audio_file,
                 chunk_files, audio_open, ws_state, outbound, send_log, lpc, fgpc, exc, interrupted>>

\* Variant of AfterParseError: the except clause also stops the recording.
AfterParseError_StopsRecording(r) == FALSE

\* Client.on_message, "except Exception": the error is printed; no field is
\* assigned.
AfterParseError(r) == r

\* Client.on_message for a payload that ServerMessage.parse_raw rejects (not
\* JSON, or a field of the wrong type): the time stamp is taken before the
\* try block, the exception is caught and printed, nothing else is assigned
\* and the handler returns normally.
on_message_malformed ==
  /\ entry = "live"
  /\ lpc = "open"
  /\ last_server_response_time < MaxMsgs
  /\ last_server_response_time' = last_server_response_time + 1
  /\ is_recording' = AfterParseError(is_recording)
  /\ dropped' = dropped + 1
  /\ last_msg_sid' = None
  /\ UNCHANGED <<entry, config, batchVars, auxVars, writers, session_id, is_waiting,
                 recorded_frames, n_audio_file, chunk_files, audio_open,
                 ws_state, outbound, send_log, lpc, fgpc, exc, ready_seen,
                 disconnect_seen, auth_failed, interrupted>>

\* The library tears the connection down afterwards (on_close).
on_error ==
  /\ entry = "live"
  /\ lpc = "open"
  /\ lpc' = "errored"
  /\ UNCHANGED <<entry, config, batchVars, auxVars, writers, dropped, session_id, is_recording, is_waiting,
                 last_server_response_time, recorded_frames, n_audio_file,
                 chunk_files, audio_open, ws_state, outbound, send_log, fgpc, exc, ready_seen, disconnect_seen,
                 auth_failed, interrupted, last_msg_sid>>

\* Client.on_close: the transport is closed (by the peer, or after an error);
\* the handler prints and changes nothing; the listener thread ends.
on_close ==
  /\ entry = "live"
  /\ lpc \in {"open", "errored"}
  /\ lpc' = "closed"
  /\ ws_state' = IF ws_state = "failed" THEN "failed" ELSE "closed"
  /\ UNCHANGED <<entry, config, batchVars, auxVars, writers, dropped, session_id, is_recording, is_waiting,
                 last_server_response_time, recorded_frames, n_audio_file,
                 chunk_files, audio_open, outbound,
                 send_log, fgpc, exc, ready_seen, disconnect_seen, auth_failed,
                 interrupted, last_msg_sid>>

(* ---------------------- foreground thread ----------------------------- *)

\* Client has no attribute close_websocket_connection, play_and_stream_audio
\* or write_output_recording (the class body defines none of them and has no
\* base class): calling one raises AttributeError before anything is done.
UndefinedMethod == "AttributeError"

\* TranscriptionClient.__call__: "while not self.client.is_recording" is left
\* when is_recording is read as true.
WaitLoopExits(r) == r

\* Client.record: "while self.is_recording".
RecordContinues(r) == r

\* Client.record: "if len(self.recorded_frames) > 60 * self.audio_config.rate".
BufferFull(n) == n > FlushChunks

\* TranscriptionClient.__call__, the read of is_recording in the loop test.
\* With an audio file, resample_audio runs and play_and_stream_audio is
\* called: the call ends with RuntimeError (ffmpeg) or AttributeError.
call_wait ==
  /\ entry = "live"
  /\ fgpc = "wait"
  /\ IF WaitLoopExits(is_recording)
     THEN IF config.file
          THEN /\ fgpc' = "raised"
               /\ exc' \in {"RuntimeError", UndefinedMethod}
          ELSE /\ fgpc' = "rec_test"
               /\ exc' = exc
     ELSE /\ fgpc' = "wait_chk"
          /\ exc' = exc
  /\ UNCHANGED <<entry, config, batchVars, auxVars, writers, dropped, session_id, is_recording, is_waiting,
                 last_server_response_time, recorded_frames, n_audio_file,
                 chunk_files, audio_open, ws_state, outbound, send_log, lpc, ready_seen, disconnect_seen,
                 auth_failed, interrupted, last_msg_sid>>

\* TranscriptionClient.__call__, the loop body: "if self.client.is_waiting"
\* calls close_websocket_connection, which does not exist.
call_wait_check ==
  /\ entry = "live"
  /\ fgpc = "wait_chk"
  /\ IF is_waiting
     THEN /\ fgpc' = "raised"
          /\ exc' = UndefinedMethod
     ELSE /\ fgpc' = "wait"
          /\ exc' = exc
  /\ UNCHANGED <<entry, config, batchVars, auxVars, writers, dropped, session_id, is_recording, is_waiting,
                 last_server_response_time, recorded_frames, n_audio_file,
                 chunk_files, audio_open, ws_state, outbound, send_log, lpc, ready_seen, disconnect_seen,
                 auth_failed, interrupted, last_msg_sid>>

\* Client.record, the loop test.  When it fails record() returns normally
\* (no cleanup is run on that path) and so does __call__.
record_test ==
  /\ entry = "live"
  /\ fgpc = "rec_test"
  /\ fgpc' = IF RecordContinues(is_recording) THEN "rec_body" ELSE "done"
  /\ UNCHANGED <<entry, config, batchVars, auxVars, writers, dropped, session_id, is_recording, is_waiting,
                 last_server_response_time, recorded_frames, n_audio_file,
                 chunk_files, audio_open, ws_state, outbound, send_log, lpc, exc, ready_seen, disconnect_seen,
                 auth_failed, interrupted, last_msg_sid>>

\* Client.record, threading.Thread(target=self.write_audio_frames_to_file,
\* args=(self.recorded_frames[:], f"chunks/{n_audio_file}.wav")): the thread
\* holds its own copy of the buffer and the file index.
WriterThread(frames, n) == [frames |-> frames, file |-> n]

\* Variant of AfterFileWrite: the writer thread empties the client's buffer.
AfterFileWrite_Clears(frames) == 0

\* Client.write_audio_frames_to_file: the frames passed in go to the WAV
\* file; no field of the client is assigned, the buffer is as it was.
AfterFileWrite(frames) == frames

\* A chunk-writer thread started by record() runs: it writes its file.
write_audio_frames_to_file(w) ==
  /\ entry = "live"
  /\ w \in writers
  /\ writers' = writers \ {w}
  /\ chunk_files' = chunk_files \cup {w.file}
  /\ recorded_frames' = AfterFileWrite(recorded_frames)
  /\ UNCHANGED <<entry, config, batchVars, auxVars, dropped, session_id, is_recording, is_waiting,
                 last_server_response_time, n_audio_file, audio_open,
                 ws_state, outbound, send_log, lpc, fgpc, exc, ready_seen,
                 disconnect_seen, auth_failed, interrupted, last_msg_sid>>

\* Variant of SendErrorLeaves: the exception of a failed send is not caught.
SendErrorLeaves_Uncaught(sent) == ~sent

\* Client.stream_audio_packet: "except Exception" around the send prints the
\* error; no exception leaves the method, whether the send worked or not.
SendErrorLeaves(sent) == FALSE

\* Client.record, one loop body: read a chunk, append it to recorded_frames,
\* send it (stream_audio_packet absorbs a failed send), and hand the buffer
\* to a chunk file once it is full.
record_body ==
  /\ entry = "live"
  /\ fgpc = "rec_body"
  /\ Captured < MaxChunks
  /\ outbound' = Transmit(outbound, AudioPacket)
  /\ send_log' = TransmitLog(send_log, session_id)
  /\ IF BufferFull(recorded_frames + 1)
     THEN /\ writers' = writers \cup {WriterThread(recorded_frames + 1, n_audio_file)}
          /\ n_audio_file' = n_audio_file + 1
          /\ recorded_frames' = 0
     ELSE /\ recorded_frames' = recorded_frames + 1
          /\ UNCHANGED <<writers, n_audio_file>>
  /\ IF SendErrorLeaves(ws_state = "open")
     THEN /\ fgpc' = "raised"
          /\ exc' = "WebSocketException"
     ELSE /\ fgpc' = "rec_test"
          /\ exc' = exc
  /\ UNCHANGED <<entry, config, batchVars, auxVars, dropped, session_id, is_recording, is_waiting,
                 last_server_response_time, chunk_files, audio_open, ws_state,
                 lpc, ready_seen, disconnect_seen,
                 auth_failed, interrupted, last_msg_sid>>

\* KeyboardInterrupt while __call__ is in its wait loop: nothing catches it,
\* it leaves __call__.
interrupt_call ==
  /\ entry = "live"
  /\ fgpc \in {"wait", "wait_chk"}
  /\ fgpc' = "raised"
  /\ exc' = "KeyboardInterrupt"
  /\ UNCHANGED <<entry, config, batchVars, auxVars, writers, dropped, session_id, is_recording, is_waiting,
                 last_server_response_time, recorded_frames, n_audio_file,
                 chunk_files, audio_open, ws_state, outbound, send_log, lpc, ready_seen, disconnect_seen,
                 auth_failed, interrupted, last_msg_sid>>

\* KeyboardInterrupt inside record()'s try block: control goes to the
\* except clause, which calls _cleanup.
interrupt_record ==
  /\ entry = "live"
  /\ fgpc \in {"rec_test", "rec_body"}
  /\ fgpc' = "cleanup"
  /\ interrupted' = TRUE
  /\ UNCHANGED <<entry, config, batchVars, auxVars, writers, dropped, session_id, is_recording, is_waiting,
                 last_server_response_time, recorded_frames, n_audio_file,
                 chunk_files, audio_open, ws_state, outbound, send_log, lpc, exc, ready_seen, disconnect_seen,
                 auth_failed, last_msg_sid>>

\* Client._cleanup: write the buffered frames when there are any, stop and
\* close the audio stream and terminate PyAudio, then call
\* self.close_websocket_connection(), which raises: the transport is left as
\* it is and write_output_recording is never reached.
cleanup ==
  /\ entry = "live"
  /\ fgpc = "cleanup"
  /\ chunk_files' = IF recorded_frames > 0
                    THEN chunk_files \cup {n_audio_file}
                    ELSE chunk_files
  /\ audio_open' = FALSE
  /\ fgpc' = "raised"
  /\ exc' = UndefinedMethod
  /\ UNCHANGED <<entry, config, batchVars, auxVars, writers, dropped, session_id, is_recording, is_waiting,
                 last_server_response_time, recorded_frames, n_audio_file,
                 ws_state, outbound, send_log, lpc,
                 ready_seen, disconnect_seen, auth_failed, interrupted,
                 last_msg_sid>>

(* --------------------------- batch CLI -------------------------------- *)

\* Variant of BatchTask: the two branches are swapped.
BatchTask_Swapped(args) == IF args.translate THEN "transcribe" ELSE "translate"

\* run_batch_processing: task = "translate" if args.translate else "transcribe"
BatchTask(args) == IF args.translate THEN "translate" ELSE "transcribe"

\* BatchTranscriptionClient.create_batch_job: the payload that is POSTed.
BatchPayload(language, task) ==
  [service_type       |-> "batch",
   model_type         |-> "L3",
   language           |-> language,
   task               |-> task,
   store_conversation |-> FALSE]

\* run_batch_processing up to the submission.  Without --file it prints an
\* error and exits 1.  create_batch_job either fails before the POST (the
\* file cannot be read), fails on the POST, or returns a response, with or
\* without an id.
run_batch_processing ==
  /\ entry = "offline"
  /\ bpc = "start"
  /\ IF ~config.file
     THEN /\ bpc' = "exited"
          /\ exit_code' = 1
          /\ posted' = posted
     ELSE \E outcome \in {"file_error", "http_error", "no_id", "ok"} :
            /\ posted' = IF outcome = "file_error"
                         THEN posted
                         ELSE Append(posted,
                                BatchPayload(config.language, BatchTask(config)))
            /\ bpc' = IF outcome = "ok" THEN "submitted" ELSE "exited"
            /\ exit_code' = IF outcome = "ok" THEN exit_code ELSE 1
  /\ UNCHANGED <<entry, config, streamVars, auxVars>>

(* -------------------- _handle_transcription --------------------------- *)

\* Non-empty segment lists of at most n segments (on_message calls
\* _handle_transcription only for a non-empty list).
SegLists(n) == UNION {[1..k -> Texts] : k \in 1..n}

\* Variant of AppendSegment: no comparison, every segment is appended.
AppendSegment_NoCompare(t, text) == Append(t, text)

\* Variant of AppendSegment: a text is compared with every entry appended so
\* far, not with the last one alone.
AppendSegment_AnyEarlier(t, text) ==
  IF \E i \in DOMAIN t : t[i] = text THEN t ELSE Append(t, text)

\* Loop body: "if not transcript or transcript[-1] != segment.text:
\* transcript.append(segment.text)".
AppendSegment(t, text) ==
  IF t = <<>> \/ t[Len(t)] # text THEN Append(t, text) ELSE t

\* "for segment in segments": the loop over segs[i..], from the list t.
RECURSIVE Collapse(_, _, _)
Collapse(segs, i, t) ==
  IF i > Len(segs) THEN t
  ELSE Collapse(segs, i + 1, AppendSegment(t, segs[i]))

\* "if len(transcript) > 3: transcript = transcript[-3:]".
LastThree(t) == IF Len(t) > 3 THEN SubSeq(t, Len(t) - 2, Len(t)) ELSE t

\* Variant of NewTranscript: the list of the previous call is kept.
NewTranscript_Kept(previous) == previous

\* "transcript = []": a local list, empty at the start of every call.
NewTranscript(previous) == <<>>

\* The transcript list _handle_transcription displays for the list segs,
\* previous being the list of the call before.
HandleTranscription(previous, segs) ==
  LastThree(Collapse(segs, 1, NewTranscript(previous)))

\* "".join(transcript).
RECURSIVE Join(_)
Join(t) == IF t = <<>> THEN "" ELSE t[1] \o Join(Tail(t))

\* Client._handle_transcription(segments), as on_message calls it for a
\* message with segments: transcript is a local list, built anew by every
\* call; the joined text is what is printed (the texts are shorter than the
\* wrap width and hold no white space, so textwrap.wrap leaves one line).
handle_transcription(segs) ==
  /\ entry = "transcript"
  /\ segments' = segs
  /\ transcript' = HandleTranscription(transcript, segs)
  /\ wrapped_text' = Join(HandleTranscription(transcript, segs))
  /\ UNCHANGED notTx

(* -------------------- wait_for_job_completion ------------------------- *)

\* The statuses that end the poll loop with a raised error.
FailureStatuses_Short == {"FAILED"}

\* "if current_status in [FAILED_TS_TRANSCRIBE, FAILED, FAILED_TRANSCRIBE]".
FailureStatuses == {"FAILED_TS_TRANSCRIBE", "FAILED", "FAILED_TRANSCRIBE"}

\* Values of job_status.get("status"): the terminal tags, a tag of a job in
\* progress, and None for a response without the key.
JobStatuses ==
  {"DONE", "FAILED", "FAILED_TS_TRANSCRIBE", "FAILED_TRANSCRIBE", "PROCESSING",
   None}

\* What get_batch_job_status does: return a response, or raise.
FetchOutcomes == [ok : {TRUE}, status : JobStatuses] \cup {NoResponse}

\* raise Exception(f"Job timed out after {timeout} seconds")
TimedOut == [type |-> "Exception", msg |-> "Job timed out", status |-> None]

\* raise Exception(f"Job failed with status: {current_status}")
JobFailed(s) ==
  [type |-> "Exception", msg |-> "Job failed with status", status |-> s]

\* Variant of DeadlinePassed: the deadline is never seen to have passed.
DeadlinePassed_Never(elapsed_time, t) == FALSE

\* "if elapsed_time > timeout".
DeadlinePassed(elapsed_time, t) == elapsed_time > t

\* Variant of AfterFetchError: the error of the fetch leaves the loop.
AfterFetchError_Raises == "raised"

\* "except Exception as e: print(...); time.sleep(poll_interval); continue".
AfterFetchError == "sleep"

\* Where the loop goes after a response with status s: return on DONE, raise
\* on a failure status, otherwise sleep and poll again.
AfterResponse(s) ==
  IF s = "DONE" THEN "returned"
  ELSE IF s \in FailureStatuses THEN "raised"
  ELSE "sleep"

\* wait_for_job_completion(job_id, poll_interval, timeout) is called: lines
\* 152-154.
wait_for_job_completion(pi, t) ==
  /\ entry = "poll"
  /\ ppc = "idle"
  /\ ppc' = "check"
  /\ poll_interval' = pi
  /\ timeout' = t
  /\ start_time' = now
  /\ last_status' = None
  /\ UNCHANGED <<notPoll, now, job_status, poll_result, poll_exc, fetched_ok>>

\* Top of the loop: the timeout check (lines 161-163).
poll_check ==
  /\ entry = "poll"
  /\ ppc = "check"
  /\ IF DeadlinePassed(now - start_time, timeout)
       THEN ppc' = "raised" /\ poll_exc' = TimedOut
       ELSE ppc' = "fetch" /\ poll_exc' = poll_exc
  /\ UNCHANGED <<notPoll, now, start_time, timeout, poll_interval, last_status,
                 job_status, poll_result, fetched_ok>>

\* get_batch_job_status and what the loop does with its outcome r (lines
\* 166-197); the fetch takes d ticks.
poll_fetch(r, d) ==
  /\ entry = "poll"
  /\ ppc = "fetch"
  /\ now + d <= MaxClock
  /\ now' = now + d
  /\ job_status' = r
  /\ fetched_ok' = (fetched_ok \/ r.ok)
  /\ ppc' = IF r.ok THEN AfterResponse(r.status) ELSE AfterFetchError
  /\ poll_result' = IF r.ok /\ ppc' = "returned" THEN r ELSE poll_result
  /\ poll_exc' = IF ppc' # "raised" THEN poll_exc
                 ELSE IF r.ok THEN JobFailed(r.status)
                 ELSE [type |-> "Exception", msg |-> "Failed to get job status",
                       status |-> None]
  /\ last_status' = IF r.ok /\ ppc' = "sleep" THEN r.status ELSE last_status
  /\ UNCHANGED <<notPoll, start_time, timeout, poll_interval>>

\* time.sleep(poll_interval), in the except clause (line 170) or at the end
\* of the loop body (line 200); then the loop starts over.
poll_sleep ==
  /\ entry = "poll"
  /\ ppc = "sleep"
  /\ now + poll_interval <= MaxClock
  /\ now' = now + poll_interval
  /\ ppc' = "check"
  /\ UNCHANGED <<notPoll, start_time, timeout, poll_interval, last_status,
                 job_status, poll_result, poll_exc, fetched_ok>>

(* ------------------------ latency sampler ----------------------------- *)

\* What a trial can do: give a sample ("ttft"), report success without a
\* recorded TTFT, report failure, raise an Exception, or be cut short by a
\* KeyboardInterrupt, either before anything was recorded or between
\* "ttft_measurements.append(ttft_ms)" and "successful_runs += 1".
TrialOutcomes ==
  {"ttft", "no_ttft", "failed", "error", "interrupt", "interrupt_after_append"}

Interrupts == {"interrupt", "interrupt_after_append"}

\* Variant of CountsAsFailure: success without a recorded TTFT is not
\* counted.
CountsAsFailure_NoTtftIgnored(o) == o \in {"failed", "error"}

\* The outcomes that run "failed_runs += 1" (lines 92, 95, 101).
CountsAsFailure(o) == o \in {"no_ttft", "failed", "error"}

\* Variant of ReportedCounts: "Total runs" is the number of trials counted.
ReportedCounts_Counted(n, s, f) ==
  [printed |-> TRUE, total |-> s + f, successful |-> s, failed |-> f]

\* Lines 128-130: "Total runs: {num_runs}", "Successful: ...", "Failed: ...".
ReportedCounts(n, s, f) ==
  [printed |-> TRUE, total |-> n, successful |-> s, failed |-> f]

\* run_benchmark(api_key, num_runs) is called: lines 38-62.
run_benchmark(n) ==
  /\ entry = "benchmark"
  /\ bench_pc = "idle"
  /\ num_runs' = n
  /\ bench_pc' = IF n > 0 THEN "loop" ELSE "results"
  /\ UNCHANGED <<notPct, pctVars, started, finished, successful_runs,
                 failed_runs, bench_interrupted, last_outcome, report>>

\* One iteration of "for i in range(num_runs)" up to the delay (lines
\* 64-101): the trial goes as o says, with sample v when it gives one.  A
\* KeyboardInterrupt breaks out of the loop.
run_trial(o, v) ==
  /\ entry = "benchmark"
  /\ bench_pc = "loop"
  /\ started' = started + 1
  /\ finished' = IF o \in Interrupts THEN finished ELSE finished + 1
  /\ last_outcome' = o
  /\ data' = IF o \in {"ttft", "interrupt_after_append"}
              THEN Append(data, v) ELSE data
  /\ successful_runs' = IF o = "ttft" THEN successful_runs + 1
                         ELSE successful_runs
  /\ failed_runs' = IF CountsAsFailure(o) THEN failed_runs + 1 ELSE failed_runs
  /\ bench_interrupted' = (o \in Interrupts)
  /\ bench_pc' = IF o \in Interrupts THEN "results"
                 ELSE IF started < num_runs - 1 THEN "sleep"
                 ELSE "results"
  /\ UNCHANGED <<notPct, num_runs, report, calls, percentile, result,
                 earlier_percentile, earlier_result, bench_returned, stats>>

\* "if i < num_runs - 1: time.sleep(0.5)" (lines 104-105), outside the try:
\* a KeyboardInterrupt here leaves run_benchmark.
trial_sleep(interrupt) ==
  /\ entry = "benchmark"
  /\ bench_pc = "sleep"
  /\ bench_pc' = IF interrupt THEN "raised" ELSE "loop"
  /\ UNCHANGED <<notPct, pctVars, num_runs, started, finished,
                 successful_runs, failed_runs, bench_interrupted,
                 last_outcome, report>>

\* A call calculate_percentile(data, pct) on the sample list.
calculate_percentile(pct) ==
  /\ entry = "sampler"
  /\ calls' = IF calls < 2 THEN calls + 1 ELSE calls
  /\ percentile' = pct
  /\ result' = CalcPercentile(data, pct)
  /\ earlier_percentile' = percentile
  /\ earlier_result' = result
  /\ UNCHANGED <<notPct, benchVars, data, bench_returned, stats>>

\* run_benchmark once the trials are over (lines 109-177): without samples
\* it prints an error and returns False; otherwise it computes the
\* statistics, prints and saves them and returns True.
benchmark_results ==
  /\ entry \in {"sampler", "benchmark"}
  /\ bench_pc = "results"
  /\ bench_returned = "none"
  /\ bench_pc' = "done"
  /\ IF data = <<>>
       THEN bench_returned' = "False" /\ stats' = stats /\ report' = report
       ELSE /\ bench_returned' = "True"
            /\ stats' = Statistics(data)
            /\ report' = ReportedCounts(num_runs, successful_runs, failed_runs)
  /\ UNCHANGED <<notPct, data, calls, percentile, result, earlier_percentile,
                 earlier_result, num_runs, started, finished, successful_runs,
                 failed_runs, bench_interrupted, last_outcome>>

(* --------------------------- CLI wrappers ------------------------------ *)

\* Classes of exceptions derived from Exception that a call can raise.
ExceptionClasses ==
  {"Exception", "FileNotFoundError", "ConnectionError", "TypeError", "ValueError"}

\* What a call made inside a wrapper's try block can raise.
Raised == {"KeyboardInterrupt"} \cup ExceptionClasses

\* Variant of ExitStatus: a keyboard interrupt exits like any exception.
ExitStatus_InterruptFails(cause) == 1

\* The "except KeyboardInterrupt: sys.exit(0)" and "except Exception as e:
\* print [ERROR]; sys.exit(1)" clauses of the three mains (and of
\* run_batch_processing, which has the second alone, so that a keyboard
\* interrupt goes on to main's first).
ExitStatus(cause) == IF cause = "KeyboardInterrupt" THEN 0 ELSE 1

PrintsError(cause) == cause # "KeyboardInterrupt"

\* The run ends with the process exit status x.
Exits(cause, x, printed) ==
  /\ cli_pc' = "exited"
  /\ cli_cause' = [at |-> cli_pc, what |-> cause]
  /\ cli_exit' = x
  /\ error_printed' = printed

\* The call raised: the except clauses end the run.
Handles(cause) == Exits(cause, ExitStatus(cause), PrintsError(cause))

\* Speech-to-text main, live mode: TranscriptionClient(...) (lines 241-250).
stt_live_construct(o) ==
  /\ entry = "cli"
  /\ cli_mode = "stt_live"
  /\ cli_pc = "start"
  /\ IF o = "returned"
       THEN /\ cli_pc' = "constructed"
            /\ UNCHANGED <<cli_exit, error_printed, cli_cause>>
       ELSE Handles(o)
  /\ UNCHANGED <<notCli, cli_mode>>

\* Speech-to-text main, live mode: client(args.file) or client() (lines
\* 263-269); when the call returns, main returns and the process ends with
\* status 0.
stt_live_call(o) ==
  /\ entry = "cli"
  /\ cli_mode = "stt_live"
  /\ cli_pc = "constructed"
  /\ IF o = "returned" THEN Exits(o, 0, FALSE) ELSE Handles(o)
  /\ UNCHANGED <<notCli, cli_mode>>

\* Speech-to-text main, offline mode: run_batch_processing up to the
\* submission (cli.py lines 20-56).  Without --file it prints an error and
\* exits 1; so it does when the response has no id (sys.exit raises
\* SystemExit, which no except clause here catches).
stt_offline_submit(o) ==
  /\ entry = "cli"
  /\ cli_mode = "stt_offline"
  /\ cli_pc = "start"
  /\ IF ~config.file THEN Exits("no_file", 1, TRUE)
     ELSE IF o = "no_id" THEN Exits(o, 1, TRUE)
     ELSE IF o = "returned"
       THEN /\ cli_pc' = "submitted"
            /\ UNCHANGED <<cli_exit, error_printed, cli_cause>>
     ELSE Handles(o)
  /\ UNCHANGED <<notCli, cli_mode>>

\* Offline mode after the submission: wait_for_job_completion and the
\* display of the results (cli.py lines 62-129).
stt_offline_wait(o) ==
  /\ entry = "cli"
  /\ cli_mode = "stt_offline"
  /\ cli_pc = "submitted"
  /\ IF o = "returned" THEN Exits(o, 0, FALSE) ELSE Handles(o)
  /\ UNCHANGED <<notCli, cli_mode>>

\* Text-to-speech main (tts/cli.py lines 94-161): the client is built and
\* run_simple_test returns True or False, or something raises.
tts_main(o) ==
  /\ entry = "cli"
  /\ cli_mode = "tts"
  /\ cli_pc = "start"
  /\ IF o = "True" THEN Exits(o, 0, FALSE)
     ELSE IF o = "False" THEN Exits(o, 1, TRUE)
     ELSE Handles(o)
  /\ UNCHANGED <<notCli, cli_mode>>

(* ------------------- TranscriptionClient(...) -------------------------- *)

\* The keyword parameters of both TranscriptionClient classes.
ArgNames == {"api_key", "host", "port", "multilingual", "language", "translate"}

\* The value the caller passes for a keyword argument it gives.
Passed ==
  [api_key      |-> "test_key",
   host         |-> "ws://localhost",
   port         |-> 9091,
   multilingual |-> TRUE,
   language     |-> "fr",
   translate    |-> TRUE]

\* src/src/tsclient/client.py, TranscriptionClient.__init__: the defaults of
\* its parameters.
TsclientDefaults ==
  [api_key      |-> None,
   host         |-> "wss://api.talkscriber.com",
   port         |-> 9090,
   multilingual |-> FALSE,
   language     |-> "en",
   translate    |-> FALSE]

\* ts_live.client.TranscriptionClient.__init__(self, host, port, api_key,
\* multilingual=False, language="en", translate=False): the parameters
\* without a default.
TsLiveRequired == {"host", "port", "api_key"}

TsLiveDefaults == [multilingual |-> FALSE, language |-> "en", translate |-> FALSE]

\* The value bound to parameter a.
Bound(given, defaults, a) == IF a \in given THEN Passed[a] ELSE defaults[a]

\* tsclient: every parameter becomes an attribute of the same name.
TsclientAttrs(given) ==
  [api_key      |-> Bound(given, TsclientDefaults, "api_key"),
   host         |-> Bound(given, TsclientDefaults, "host"),
   port         |-> Bound(given, TsclientDefaults, "port"),
   multilingual |-> Bound(given, TsclientDefaults, "multilingual"),
   language     |-> Bound(given, TsclientDefaults, "language"),
   translate    |-> Bound(given, TsclientDefaults, "translate")]

\* ts_live: the one attribute is client, a Client built on the ServerConfig
\* (all required parameters given).
TsLiveAttrs(given) ==
  [client |->
    [host         |-> Passed.host,
     port         |-> Passed.port,
     api_key      |-> Passed.api_key,
     multilingual |-> Bound(given, TsLiveDefaults, "multilingual"),
     language     |-> Bound(given, TsLiveDefaults, "language"),
     translate    |-> Bound(given, TsLiveDefaults, "translate")]]

\* TranscriptionClient(**given) on the class tc_class: a call that leaves a
\* required parameter out raises TypeError.
construct_client ==
  /\ entry = "construct"
  /\ tc_pc = "new"
  /\ IF tc_class = "tsclient"
       THEN /\ tc_pc' = "constructed"
            /\ tc_raised' = tc_raised
            /\ tc_attrs' = TsclientAttrs(tc_given)
       ELSE IF TsLiveRequired \subseteq tc_given
       THEN /\ tc_pc' = "constructed"
            /\ tc_raised' = tc_raised
            /\ tc_attrs' = TsLiveAttrs(tc_given)
       ELSE /\ tc_pc' = "raised"
            /\ tc_raised' = "TypeError"
            /\ tc_attrs' = tc_attrs
  /\ UNCHANGED <<notTc, tc_class, tc_given>>

(* ------------------------- specification ------------------------------ *)

Listener ==
  \/ connect_failed
  \/ on_open
  \/ \E m \in ServerMessage : on_message(m)
  \/ on_message_malformed
  \/ on_error
  \/ on_close

\* The steps the foreground thread takes by itself.
Foreground ==
  \/ call_wait
  \/ call_wait_check
  \/ record_test
  \/ record_body
  \/ cleanup

\* The chunk-writer threads record() has started.
Writers == \E w \in writers : write_audio_frames_to_file(w)

Next ==
  \/ Listener
  \/ Foreground
  \/ Writers
  \/ interrupt_call
  \/ interrupt_record
  \/ run_batch_processing

Spec == Init /\ [][Next]_vars

\* The foreground thread is a running Python thread: it keeps taking its own
\* steps.  Nothing is assumed about the server, the network or the keyboard.
FairSpec == Spec /\ WF_vars(Foreground)

\* The display of transcription segments, taken on its own.
TxInit ==
  /\ entry = "transcript"
  /\ config \in ServerConfig
  /\ StreamIdle
  /\ TxIdle
  /\ PollIdle
  /\ data = <<>>
  /\ PctIdle
  /\ BenchIdle
  /\ cli_mode = None
  /\ CliIdle
  /\ tc_class = None
  /\ tc_given = {}
  /\ TcIdle

TxNext == \E segs \in SegLists(MaxSegs) : handle_transcription(segs)

TxSpec == TxInit /\ [][TxNext]_vars

\* The poll loop of the batch client, taken on its own.
PollInit ==
  /\ entry = "poll"
  /\ config \in ServerConfig
  /\ StreamIdle
  /\ TxIdle
  /\ PollIdle
  /\ data = <<>>
  /\ PctIdle
  /\ BenchIdle
  /\ cli_mode = None
  /\ CliIdle
  /\ tc_class = None
  /\ tc_given = {}
  /\ TcIdle

PollNext ==
  \/ \E pi \in 1..MaxPollInterval, t \in 0..MaxTimeout :
       wait_for_job_completion(pi, t)
  \/ poll_check
  \/ \E r \in FetchOutcomes, d \in 0..MaxFetchTime : poll_fetch(r, d)
  \/ poll_sleep

PollSpec == PollInit /\ [][PollNext]_vars

\* Every fetch and every sleep returns, and the loop is not suspended for
\* ever between them.
FairPollSpec == PollSpec /\ WF_vars(PollNext)

\* The latency sampler's statistics over a sample list, taken on their own:
\* run_benchmark after a loop in which every trial gave a sample (the
\* benchmark has no ServerConfig: config stays at its defaults).
PctInit ==
  /\ entry = "sampler"
  /\ config \in {c \in ServerConfig : ~c.translate /\ ~c.file}
  /\ StreamIdle
  /\ TxIdle
  /\ PollIdle
  /\ data \in DataSets
  /\ PctIdle
  /\ num_runs = Len(data)
  /\ started = Len(data)
  /\ finished = Len(data)
  /\ successful_runs = Len(data)
  /\ failed_runs = 0
  /\ bench_pc = "results"
  /\ bench_interrupted = FALSE
  /\ last_outcome = IF data = <<>> THEN None ELSE "ttft"
  /\ report = NoReport
  /\ cli_mode = None
  /\ CliIdle
  /\ tc_class = None
  /\ tc_given = {}
  /\ TcIdle

PctNext ==
  \/ \E pct \in Percentiles : calculate_percentile(pct)
  \/ benchmark_results

PctSpec == PctInit /\ [][PctNext]_vars

\* run_benchmark from its call to its return.
BenchInit ==
  /\ entry = "benchmark"
  /\ config \in {c \in ServerConfig : ~c.translate /\ ~c.file}
  /\ StreamIdle
  /\ TxIdle
  /\ PollIdle
  /\ data = <<>>
  /\ PctIdle
  /\ BenchIdle
  /\ cli_mode = None
  /\ CliIdle
  /\ tc_class = None
  /\ tc_given = {}
  /\ TcIdle

BenchNext ==
  \/ \E n \in 0..MaxRuns : run_benchmark(n)
  \/ \E o \in TrialOutcomes, v \in SampleValues : run_trial(o, v)
  \/ \E interrupt \in BOOLEAN : trial_sleep(interrupt)
  \/ benchmark_results

BenchSpec == BenchInit /\ [][BenchNext]_vars

\* The command-line wrappers after argument parsing.
CliInit ==
  /\ entry = "cli"
  /\ config \in ServerConfig
  /\ StreamIdle
  /\ TxIdle
  /\ PollIdle
  /\ data = <<>>
  /\ PctIdle
  /\ BenchIdle
  /\ cli_mode \in {"stt_live", "stt_offline", "tts"}
  /\ CliIdle
  /\ tc_class = None
  /\ tc_given = {}
  /\ TcIdle

CliNext ==
  \/ \E o \in {"returned"} \cup Raised : stt_live_construct(o)
  \/ \E o \in {"returned"} \cup Raised : stt_live_call(o)
  \/ \E o \in {"returned", "no_id"} \cup Raised : stt_offline_submit(o)
  \/ \E o \in {"returned"} \cup Raised : stt_offline_wait(o)
  \/ \E o \in {"True", "False"} \cup Raised : tts_main(o)

CliSpec == CliInit /\ [][CliNext]_vars

\* A call of TranscriptionClient with some of its keyword arguments, on
\* either class of that name.
ConstructInit ==
  /\ entry = "construct"
  /\ config \in {c \in ServerConfig : ~c.translate /\ ~c.file}
  /\ StreamIdle
  /\ TxIdle
  /\ PollIdle
  /\ data = <<>>
  /\ PctIdle
  /\ BenchIdle
  /\ cli_mode = None
  /\ CliIdle
  /\ tc_class \in {"ts_live", "tsclient"}
  /\ tc_given \in SUBSET ArgNames
  /\ TcIdle

ConstructNext == construct_client

ConstructSpec == ConstructInit /\ [][ConstructNext]_vars

(* ----------------------------- claims --------------------------------- *)

\* Positions of the frames of one kind in the outbound stream.
FramesOfKind(k) == {i \in DOMAIN outbound : outbound[i].kind = k}

\* The foreground call has left the wait loop towards record().
InRecord == fgpc \in {"rec_test", "rec_body", "cleanup", "done"}

\* C1: no audio chunk is sent before a SERVER_READY message has been handled
\* on the connection: record() is entered, and a chunk is in the outbound
\* stream, only when on_message has handled SERVER_READY.
C1_NoChunkBeforeReady ==
  /\ FramesOfKind("chunk") # {} => ready_seen
  /\ InRecord => ready_seen

\* C1 witness: a chunk has been sent after SERVER_READY.
C1_Witness == FramesOfKind("chunk") # {} /\ ready_seen /\ fgpc = "rec_test"

\* C2: on every connection the first outbound frame is the handshake; every
\* audio chunk comes after it.
C2_HandshakeFirst ==
  /\ outbound # <<>> => outbound[1].kind = "handshake"
  /\ \A i \in FramesOfKind("chunk") : i > 1

\* C2 witness: the handshake followed by two chunks.
C2_Witness ==
  /\ Len(outbound) >= 3
  /\ outbound[2].kind = "chunk"
  /\ outbound[3].kind = "chunk"

\* C3: the handshake is sent exactly once per established connection, by
\* on_open, with the session id generated at construction as its uid; no
\* other step adds a handshake to the outbound stream.
C3_HandshakeOnce ==
  /\ [](/\ Cardinality(FramesOfKind("handshake")) =
             (IF ws_state \in {"open", "closed"} THEN 1 ELSE 0)
        /\ \A i \in FramesOfKind("handshake") : outbound[i].uid = InitialUid)
  /\ [][Len(SelectSeq(outbound', LAMBDA f : f.kind = "handshake"))
          # Len(SelectSeq(outbound, LAMBDA f : f.kind = "handshake"))
        => lpc = "connecting" /\ lpc' = "open"]_vars

\* C3 witness: the connection is closed again after the handshake, messages
\* (one of them replacing the session id) and chunks.
C3_Witness ==
  /\ ws_state = "closed"
  /\ session_id \in ServerIds
  /\ FramesOfKind("chunk") # {}
  /\ FramesOfKind("handshake") = {1}

\* C4: the task field sent is "translate" when translate is true and
\* "transcribe" when it is false, in the streaming handshake and in the
\* batch job; no other task value is sent.
C4_TaskField ==
  LET want == IF config.translate THEN "translate" ELSE "transcribe"
  IN  /\ \A i \in FramesOfKind("handshake") : outbound[i].task = want
      /\ \A i \in DOMAIN posted : posted[i].task = want

\* C4 witness: a handshake with translate set has gone out.
C4_Witness ==
  /\ config.translate
  /\ FramesOfKind("handshake") # {}
  /\ outbound[1].task = "translate"

\* C4 second case: a batch job without translate has been posted.
C4_BatchPosted ==
  /\ ~config.translate
  /\ posted # <<>>
  /\ posted[1].task = "transcribe"

\* The session id a frame carries: the handshake's uid; an audio chunk is
\* raw samples and carries none.
FrameUid(f) == IF f.kind = "handshake" THEN f.uid ELSE None

\* A step in which on_message handled a message.
MessageHandled == last_server_response_time' = last_server_response_time + 1

\* C5 (as stated): once the session id has been replaced by a server-issued
\* id, every message the client sends afterwards on the connection carries
\* that id.
C5_ServerIdOnLaterMessages ==
  \A i \in DOMAIN outbound :
    send_log[i].replaced => FrameUid(outbound[i]) = send_log[i].sid

\* C5 (amended): a server-issued id is only stored.  The one outbound message
\* that carries a session id is the handshake, sent first, before any
\* replacement, with the id generated at construction; chunks carry none.
\* The stored id changes only when on_message handles a message whose
\* session_id is present and differs from it, and then becomes that id; a
\* message with no session_id or with the same one leaves it unchanged, so a
\* server-issued id is never lost.
C5_SessionIdStored ==
  /\ [](/\ session_id \in {InitialUid} \cup ServerIds
        /\ \A i \in DOMAIN outbound :
             FrameUid(outbound[i]) # None
               => i = 1 /\ ~send_log[i].replaced
                        /\ FrameUid(outbound[i]) = InitialUid)
  /\ [][IF MessageHandled
        THEN session_id' = (IF last_msg_sid' \notin {None, session_id}
                            THEN last_msg_sid'
                            ELSE session_id)
        ELSE session_id' = session_id]_vars

\* C5 witness: the id was replaced by a server-issued one, a chunk went out
\* afterwards, and the last handled message carried no session_id.
C5_Witness ==
  /\ session_id \in ServerIds
  /\ last_msg_sid = None
  /\ \E i \in FramesOfKind("chunk") : send_log[i].replaced

\* The record loop goes round once more: its test passes.
LoopGoesOn == fgpc = "rec_test" /\ fgpc' = "rec_body"

\* C6: a WAIT status halts local sending: once on_message has handled WAIT,
\* the record loop does not go round again, so no further chunk is captured
\* and sent (a chunk whose iteration had already begun is not counted).
C6_WaitHaltsSending == [][is_waiting => ~LoopGoesOn]_vars

\* C7: DISCONNECT is terminal: once on_message has handled a DISCONNECT that
\* arrived while record() was running, the record loop does not go round
\* again, whatever message arrives later.
C7_DisconnectTerminal == [][disconnect_seen = "in_record" => ~LoopGoesOn]_vars

\* C8: a transport error ends the session: once on_error or on_close has
\* run, the record loop does not go round again.
C8_TransportErrorStops ==
  [][(lpc = "errored" \/ lpc = "closed") => ~LoopGoesOn]_vars

\* C9: when the transport cannot be established, or the server answers with
\* an authentication failure, the failure reaches the caller: the call does
\* not stay in its wait loop.
C9_CallerNotLeftWaiting ==
  (ws_state = "failed" \/ auth_failed) ~> (fgpc \notin {"wait", "wait_chk"})

\* C10: after a keyboard interrupt inside record() the shutdown has, when the
\* call is over, flushed the buffered frames to a file, released the audio
\* device and closed the WebSocket transport.
C10_ShutdownCompletes ==
  (interrupted /\ fgpc \in {"done", "raised"})
    => /\ (recorded_frames > 0 => n_audio_file \in chunk_files)
       /\ ~audio_open
       /\ ws_state = "closed"

\* C11: a malformed inbound payload is dropped, not fatal: the step of
\* on_message that drops it leaves is_recording, is_waiting and session_id as
\* they were, no exception leaves the handler, and the listener stays open so
\* that every later well-formed message is still handled.
C11_MalformedDropped ==
  [][dropped' # dropped =>
       /\ is_recording' = is_recording
       /\ is_waiting' = is_waiting
       /\ session_id' = session_id
       /\ exc' = exc
       /\ lpc' = "open"]_vars

\* A payload was dropped and a later well-formed message carrying a session
\* id and SERVER_READY was handled: its id is stored and recording is on.
C11_Witness ==
  /\ dropped > 0
  /\ last_msg_sid \in ServerIds
  /\ session_id = last_msg_sid
  /\ is_recording

\* No two adjacent entries of the list t are equal.
NoAdjacentEqual(t) == \A i \in 1..(Len(t) - 1) : t[i] # t[i + 1]

\* C12: consecutive identical segments are collapsed: whatever the segment
\* texts of a message, the displayed transcript has no two adjacent equal
\* entries, and the segments a, a, b give the transcript a, b.
C12_ConsecutiveCollapsed ==
  /\ NoAdjacentEqual(transcript)
  /\ (segments = <<"a", "a", "b">> => transcript = <<"a", "b">>)

\* A message whose segments repeat a text back to back was displayed.
C12_Witness ==
  /\ segments = <<"a", "a", "b">>
  /\ transcript = <<"a", "b">>

\* C13: a segment is compared only with the entry appended last: when no
\* two neighbouring segments are equal nothing is suppressed, even if a text
\* comes back later (the segments a, b, a give the transcript a, b, a).
C13_OnlyLastCompared ==
  /\ (NoAdjacentEqual(segments) => transcript = LastThree(segments))
  /\ (segments = <<"a", "b", "a">> => transcript = <<"a", "b", "a">>)

\* A text came back after a different one and was appended again.
C13_Witness ==
  /\ segments = <<"a", "b", "a">>
  /\ transcript = <<"a", "b", "a">>

\* The step in which a status fetch returned a response / raised.
FetchReturned == ppc = "fetch" /\ job_status'.ok
FetchRaised == ppc = "fetch" /\ ~job_status'.ok /\ ppc' # "fetch"

\* C14: a fetched status DONE ends the poll loop by returning that response;
\* FAILED, FAILED_TS_TRANSCRIBE and FAILED_TRANSCRIBE end it with a raised
\* error naming the status; any other status, a missing one included, leads
\* to the sleep and from there to the next timeout check, which goes on to
\* the next fetch unless the deadline has passed.
C14_TerminalStatuses ==
  /\ [][(FetchReturned /\ job_status'.status = "DONE") =>
          (ppc' = "returned" /\ poll_result' = job_status' /\ poll_exc' = NoExc)]_vars
  /\ [][(FetchReturned /\ job_status'.status \in
            {"FAILED", "FAILED_TS_TRANSCRIBE", "FAILED_TRANSCRIBE"}) =>
          (ppc' = "raised" /\ poll_exc' = JobFailed(job_status'.status))]_vars
  /\ [][(FetchReturned /\ job_status'.status \notin
            {"DONE", "FAILED", "FAILED_TS_TRANSCRIBE", "FAILED_TRANSCRIBE"}) =>
          ppc' = "sleep"]_vars
  /\ [][ppc = "sleep" => ppc' = "check"]_vars
  /\ [][(ppc = "check" /\ now - start_time <= timeout) => ppc' = "fetch"]_vars

\* The loop polled again after a status that is not terminal and after a
\* response without status, and ended with the error for FAILED_TRANSCRIBE.
C14_Witness ==
  /\ ppc = "raised"
  /\ poll_exc = JobFailed("FAILED_TRANSCRIBE")
  /\ last_status \in {"PROCESSING", None}
  /\ now > start_time

\* A terminal status has been fetched.
TerminalSeen ==
  /\ job_status.ok
  /\ job_status.status \in
       {"DONE", "FAILED", "FAILED_TS_TRANSCRIBE", "FAILED_TRANSCRIBE"}

C16_FetchFailureAbsorbed ==
  /\ [][FetchRaised =>
          (ppc' = "sleep" /\ poll_exc' = NoExc /\ poll_result' = NoResponse)]_vars
  /\ [][ppc = "sleep" =>
          (now' = now + poll_interval /\ ppc' = "check")]_vars
  /\ []((ppc \in {"returned", "raised"} /\ ~fetched_ok)
           => (ppc = "raised" /\ poll_exc = TimedOut /\ now - start_time > timeout))

\* Every fetch of the run failed, there was more than one, and the call
\* ended with the timeout error.
C16_Witness ==
  /\ ppc = "raised"
  /\ ~fetched_ok
  /\ job_status = NoResponse
  /\ poll_exc = TimedOut
  /\ now - start_time > poll_interval

\* calculate_percentile has been called on a non-empty sample list.
Called == calls > 0 /\ data # <<>>

\* C17: for a non-empty sample list, in whatever order, the percentile 0 is
\* the smallest sample and the percentile 100 the largest.
C17_EndsAreMinMax ==
  Called => /\ (percentile = 0 => result = FxOfInt(MinOf(data)))
            /\ (percentile = 100 => result = FxOfInt(MaxOf(data)))

\* Both ends were asked for, one after the other, of samples that did not
\* arrive in order.
C17_Witness ==
  /\ data = <<3, 1, 2>>
  /\ earlier_percentile = 0 /\ earlier_result = FxOfInt(1)
  /\ percentile = 100 /\ result = FxOfInt(3)

\* C18: for a fixed sample list calculate_percentile is non-decreasing in
\* its percentile argument: of two calls, the one with the smaller argument
\* does not return the larger value.
C18_Monotone ==
  (calls = 2 /\ earlier_percentile <= percentile)
    => FxLeq(earlier_result, result)

\* The exact interpolation, times 100, for the list d and the percentile
\* pct: with k = (n - 1) * pct, the samples at ranks k div 100 and the next,
\* weighted by 100 - k mod 100 and k mod 100 (a whole number).
Interpolated100(d, pct) ==
  LET sd == Sorted(d)
      k == (Len(sd) - 1) * pct
      lo == (k \div 100) + 1
      f == k % 100
  IN  IF lo >= Len(sd) THEN 100 * sd[Len(sd)]
      ELSE sd[lo] * (100 - f) + sd[lo + 1] * f

\* x and y differ by less than 2^-30.
Close(x, y) ==
  LET diff == IF FxLess(x, y) THEN FxSub(y, x) ELSE FxSub(x, y)
      eps == [i \in 1..NLimbs |->
                IF i = 2 THEN 2^(FracBits - 30 - LimbBits) ELSE 0]
  IN  FxLess(diff, eps)

\* C19: for a non-empty sample list the value returned is the linear
\* interpolation between the sorted samples at ranks floor(i) and
\* floor(i) + 1, i = (n - 1) * p / 100, weighted by the fractional part of i,
\* up to the rounding of the float operations; for the samples 10, 20, 30,
\* 40 the percentile 50 is 25 exactly.
C19_LinearInterpolation ==
  Called =>
    /\ Close(FxMulInt(result, 100), FxOfInt(Interpolated100(data, percentile)))
    /\ (data = <<10, 20, 30, 40>> /\ percentile = 50) => result = FxOfInt(25)

\* The percentile 50 of 10, 20, 30, 40 was computed.
C19_Witness ==
  /\ data = <<10, 20, 30, 40>>
  /\ percentile = 50
  /\ result = FxOfInt(25)

\* C20 as stated: with an empty sample list every statistic of the sampler
\* is a defined zero.
C20_AllStatisticsZero ==
  (data = <<>> /\ bench_returned # "none")
    => /\ stats.computed
       /\ stats.min_ttft = FxZero /\ stats.max_ttft = FxZero
       /\ stats.mean = FxZero /\ stats.median = FxZero
       /\ stats.std_dev = "0"
       /\ stats.p50 = FxZero /\ stats.p95 = FxZero /\ stats.p99 = FxZero

\* C20: calculate_percentile of an empty list is 0.0 for every percentile;
\* run_benchmark without samples computes no statistic: it reports the
\* error and returns False.
C20_EmptySampleSet ==
  data = <<>> =>
    /\ (calls > 0 => result = FxZero)
    /\ (calls = 2 => earlier_result = FxZero)
    /\ (bench_returned # "none" => (bench_returned = "False" /\ stats = NoStats))

\* Without samples, percentiles were computed and run_benchmark returned.
C20_Witness ==
  /\ data = <<>>
  /\ calls = 2
  /\ percentile = 95
  /\ result = FxZero
  /\ bench_returned = "False"

\* The step of a trial that ran to its end.
TrialFinished == finished' = finished + 1

C22_AttemptsReported ==
  report.printed => report.total = report.successful + report.failed

\* C23: every failing run of a CLI wrapper prints an [ERROR] line and exits
\* with status 1: an exception other than a keyboard interrupt, offline mode
\* without --file, a submission response without a job id, a failed TTS run;
\* a keyboard interrupt exits with status 0.
C23_CliExitStatus ==
  cli_pc = "exited" =>
    /\ (cli_cause.what \in {"Exception", "FileNotFoundError", "ConnectionError",
                             "TypeError", "ValueError", "no_file", "no_id",
                             "False"})
          => (cli_exit = 1 /\ error_printed)
    /\ cli_cause.what = "KeyboardInterrupt" => cli_exit = 0
    /\ cli_exit # 0 => error_printed

\* The offline wrapper was interrupted from the keyboard while it waited for
\* the job.
C23_Witness ==
  /\ cli_mode = "stt_offline"
  /\ cli_cause = [at |-> "submitted", what |-> "KeyboardInterrupt"]
  /\ cli_exit = 0
  /\ ~error_printed

\* C24: a TranscriptionClient constructed with only an api_key exposes host
\* "wss://api.talkscriber.com", port 9090, the given api_key, language "en",
\* multilingual False and translate True.
C24_ConstructorDefaults ==
  (tc_pc # "new" /\ tc_given = {"api_key"}) =>
    /\ tc_pc = "constructed"
    /\ {"host", "port", "api_key", "language", "multilingual", "translate"}
         \subseteq DOMAIN tc_attrs
    /\ tc_attrs.host = "wss://api.talkscriber.com"
    /\ tc_attrs.port = 9090
    /\ tc_attrs.api_key = "test_key"
    /\ tc_attrs.language = "en"
    /\ tc_attrs.multilingual = FALSE
    /\ tc_attrs.translate = TRUE

\* C25: when record() returns because a DISCONNECT ended its loop, the
\* scoped shutdown has been performed: the frames still buffered are in a
\* chunk file, the audio device is released and the transport is closed.
C25_ShutdownOnDisconnect ==
  (fgpc = "done" /\ disconnect_seen = "in_record" /\ ~interrupted)
    => /\ (recorded_frames > 0 => n_audio_file \in chunk_files)
       /\ ~audio_open
       /\ ws_state = "closed"

\* Number of audio frames handed to the open transport.
ChunksSent(out) == Cardinality({i \in 1..Len(out) : out[i].kind = "chunk"})

\* One iteration of the record loop captures a chunk while the transport
\* cannot send.
FailedSend == Captured' = Captured + 1 /\ ws_state # "open"

\* C26: a failed send of an audio chunk is absorbed and not retried: the
\* iteration ends at the loop test with no exception raised, nothing goes out
\* and is_recording is as before; no step ever sends more audio frames than
\* it captures, so the failed chunk is not sent later either, and the loop
\* goes on to its next iteration when is_recording still holds.
C26_SendFailureAbsorbed ==
  /\ [][FailedSend => /\ fgpc' = "rec_test"
                       /\ exc' = None
                       /\ outbound' = outbound
                       /\ is_recording' = is_recording]_vars
  /\ [][ChunksSent(outbound') - ChunksSent(outbound) <= Captured' - Captured]_vars
  /\ [][ChunksSent(outbound') - ChunksSent(outbound) >= 0]_vars
  /\ [][(fgpc = "rec_test" /\ is_recording /\ fgpc' \notin {"rec_test", "cleanup"})
         => fgpc' = "rec_body"]_vars

\* A send failed, and the loop captured and sent nothing twice: it is in its
\* next iteration with fewer frames out than chunks captured.
C26_Witness ==
  /\ fgpc = "rec_body"
  /\ exc = None
  /\ Captured >= 2
  /\ ChunksSent(outbound) < Captured
  /\ ChunksSent(outbound) >= 1

\* The fields the listener thread assigns, those of the foreground thread,
\* and what the chunk-writer threads touch.
ListenerFields == <<is_recording, is_waiting, session_id, last_server_response_time>>

ForegroundState == <<fgpc, exc, recorded_frames, n_audio_file, audio_open>>

\* A step of a chunk-writer thread: one of them ends.
WriterStep == writers' # writers /\ writers' \subseteq writers

\* C27: after construction every mutable field of the Client has one writing
\* thread: a step that changes is_recording, is_waiting, session_id or
\* last_server_response_time is a step of the listener handling a message (no
\* foreground or writer state moves); a step that changes recorded_frames is
\* an iteration of the record loop; a chunk-writer thread holds the frames
\* and file index it was started with and its step changes no Client field.
C27_SingleWriter ==
  /\ [][ListenerFields' # ListenerFields
         => /\ lpc = "open"
            /\ last_server_response_time' = last_server_response_time + 1
            /\ UNCHANGED <<ForegroundState, writers, chunk_files>>]_vars
  /\ [][recorded_frames' # recorded_frames
         => /\ fgpc = "rec_body"
            /\ fgpc' # fgpc
            /\ UNCHANGED <<ListenerFields, lpc, chunk_files>>]_vars
  /\ [][\A w \in writers' \ writers :
           /\ w.frames = recorded_frames + 1
           /\ w.file = n_audio_file
           /\ recorded_frames' = 0]_vars
  /\ [][WriterStep
         => /\ UNCHANGED <<ListenerFields, ForegroundState, lpc>>
            /\ \E w \in writers : chunk_files' = chunk_files \cup {w.file}]_vars

\* All three threads have written: the listener has handled two messages,
\* a chunk-writer thread has written chunks/0.wav and ended, and the record
\* loop has since put a further chunk in the buffer.
C27_Witness ==
  /\ last_server_response_time >= 2
  /\ 0 \in chunk_files
  /\ writers = {}
  /\ n_audio_file = 1
  /\ recorded_frames = 1
  /\ ~interrupted

\* __call__ is in the body of its wait loop, has read is_waiting as set, and
\* takes its next step (a keyboard interrupt aside).
WaitObserved ==
  /\ fgpc = "wait_chk"
  /\ is_waiting
  /\ fgpc' # fgpc
  /\ exc' # "KeyboardInterrupt"

\* C28: when __call__ observes the WAIT status while it waits for
\* SERVER_READY it aborts the session: the connection is closed and the call
\* returns, with no audio chunk sent, record() not entered and no further
\* round of the wait loop.
C28_WaitAborts ==
  [][WaitObserved => /\ fgpc' = "done"
                     /\ exc' = None
                     /\ ws_state' = "closed"
                     /\ ChunksSent(outbound') = 0]_vars

\* C29: once the server has sent SERVER_READY the wait-for-ready loop of
\* __call__ is eventually left, whatever the listener handles in between.
C29_WaitLoopExits == ready_seen ~> (fgpc \notin {"wait", "wait_chk"})

\* The segment texts of one message with back-to-back repetitions removed.
RECURSIVE Dedup(_)
Dedup(segs) ==
  IF Len(segs) <= 1 THEN segs
  ELSE LET front == Dedup(SubSeq(segs, 1, Len(segs) - 1))
       IN  IF segs[Len(segs)] = segs[Len(segs) - 1] THEN front
           ELSE Append(front, segs[Len(segs)])

\* The concatenation of the entries from..Len(t) of t.
RECURSIVE JoinFrom(_, _)
JoinFrom(t, from) ==
  IF from > Len(t) THEN "" ELSE t[from] \o JoinFrom(t, from + 1)

\* C30: the displayed text is the concatenation of at most the last three
\* entries of the de-duplicated segment list of the message just handled:
\* earlier entries of that list are left out, and nothing of the messages
\* handled before it enters (the text is a function of this message alone).
C30_DisplayLastThree ==
  LET d == Dedup(segments)
      from == IF Len(d) > 3 THEN Len(d) - 2 ELSE 1
  IN  /\ wrapped_text = JoinFrom(d, from)
      /\ Len(transcript) <= 3
      /\ (segments = <<"a", "b", "c", "a">> => wrapped_text = "bca")

\* A message with four distinct neighbouring segments was displayed: the
\* first is left out.
C30_Witness ==
  /\ segments = <<"a", "b", "c", "a">>
  /\ wrapped_text = "bca"

====
